---------------------------- MODULE Spec2Model ----------------------------
(***************************************************************************)
(* GlyphScope (src/src/index.js, lines 1-567): a Unicode code point        *)
(* classifier (ordered detector chain), its memoized entry point           *)
(* getCharacterType and the aggregating analyzeText.                       *)
(*                                                                         *)
(* Strings are sequences of UTF-16 code units, as in JavaScript.  A label  *)
(* {main, sub?} is a record [main, sub]; an absent sub is Undefined.       *)
(* A compiled RegExp ^\p{...}$ is represented by its property expression   *)
(* [prop, value]; a failed compilation is Null.                            *)
(***************************************************************************)
EXTENDS Integers, Sequences, FiniteSets, TLC

VARIABLES
    engine,   \* the property expressions the runtime's RegExp engine compiles
    _memo,    \* the classification cache: code point -> label
    last      \* the call made last: its arguments and what it returned

vars == <<engine, _memo, last>>

-----------------------------------------------------------------------------
(* JavaScript values *)

\* the value of a missing property (a label without sub) or parameter
Undefined == "<undefined>"

\* a detector's "no match" (null), as a label-shaped value
NoLabel == [main |-> "<null>", sub |-> Undefined]

\* an uncaught TypeError raised while classifying (calling .test on null)
Thrown == [main |-> "<TypeError>", sub |-> Undefined]

\* a RegExp that failed to compile (_makeUnicodeRegExp's null)
Null == [prop |-> "null", value |-> ""]

\* an argument that is not a string (typeof x !== 'string')
NotAString == <<-1>>

Label(main, sub) == [main |-> main, sub |-> sub]

\* JS truthiness of a string-or-undefined value
Truthy(v) == v # Undefined /\ v # ""

\* `${v}`: the template literal's conversion of a value to a string
TemplateString(v) == IF v = Undefined THEN "undefined" ELSE v

-----------------------------------------------------------------------------
(* UTF-16 *)

IsHighSurrogate(u) == u >= \hD800 /\ u <= \hDBFF
IsLowSurrogate(u) == u >= \hDC00 /\ u <= \hDFFF

\* String.prototype.codePointAt(i - 1): a surrogate pair at i is one code
\* point, anything else is the code unit itself
CodePointAt(s, i) ==
    IF IsHighSurrogate(s[i]) /\ i + 1 <= Len(s) /\ IsLowSurrogate(s[i + 1])
    THEN (s[i] - \hD800) * \h400 + (s[i + 1] - \hDC00) + \h10000
    ELSE s[i]

\* String.fromCodePoint(cp)
FromCodePoint(cp) ==
    IF cp < \h10000
    THEN <<cp>>
    ELSE << \hD800 + ((cp - \h10000) \div \h400),
            \hDC00 + ((cp - \h10000) % \h400) >>

\* String.prototype[Symbol.iterator]: the strings `for (const ch of text)`
\* yields, one per code point
\* mutant: iteration by code unit (`for (i = 0; i < s.length; i++) s[i]`)
StringIterator_byCodeUnit(s) == [i \in 1..Len(s) |-> <<s[i]>>]

RECURSIVE StringIterator(_)
StringIterator(s) ==
    IF s = <<>> THEN <<>>
    ELSE LET n == Len(FromCodePoint(CodePointAt(s, 1)))
         IN  <<SubSeq(s, 1, n)>> \o StringIterator(SubSeq(s, n + 1, Len(s)))

-----------------------------------------------------------------------------
(* The runtime's Unicode Character Database, consulted through \p{...}.    *)
(* Rows <<first, last, General_Category, Script>> (Unicode 14.0) for the   *)
(* code points the model classifies; a code point in no row is unassigned. *)

UcdTable ==
    << <<\h0000, \h001F, "Cc", "Common">>,
       <<\h0020, \h0020, "Zs", "Common">>,
       <<\h0021, \h0023, "Po", "Common">>,
       <<\h0024, \h0024, "Sc", "Common">>,
       <<\h0025, \h0027, "Po", "Common">>,
       <<\h0028, \h0028, "Ps", "Common">>,
       <<\h0029, \h0029, "Pe", "Common">>,
       <<\h002A, \h002A, "Po", "Common">>,
       <<\h002B, \h002B, "Sm", "Common">>,
       <<\h002C, \h002C, "Po", "Common">>,
       <<\h002D, \h002D, "Pd", "Common">>,
       <<\h002E, \h002F, "Po", "Common">>,
       <<\h0030, \h0039, "Nd", "Common">>,
       <<\h003A, \h003B, "Po", "Common">>,
       <<\h003C, \h003E, "Sm", "Common">>,
       <<\h003F, \h0040, "Po", "Common">>,
       <<\h0041, \h005A, "Lu", "Latin">>,
       <<\h005B, \h005B, "Ps", "Common">>,
       <<\h005C, \h005C, "Po", "Common">>,
       <<\h005D, \h005D, "Pe", "Common">>,
       <<\h005E, \h005E, "Sk", "Common">>,
       <<\h005F, \h005F, "Pc", "Common">>,
       <<\h0060, \h0060, "Sk", "Common">>,
       <<\h0061, \h007A, "Ll", "Latin">>,
       <<\h007B, \h007B, "Ps", "Common">>,
       <<\h007C, \h007C, "Sm", "Common">>,
       <<\h007D, \h007D, "Pe", "Common">>,
       <<\h007E, \h007E, "Sm", "Common">>,
       <<\h007F, \h0080, "Cc", "Common">>,
       <<\h0084, \h0086, "Cc", "Common">>,
       <<\h009F, \h009F, "Cc", "Common">>,
       <<\h00A0, \h00A0, "Zs", "Common">>,
       <<\h00A1, \h00A1, "Po", "Common">>,
       <<\h00A9, \h00A9, "So", "Common">>,
       <<\h00AD, \h00AD, "Cf", "Common">>,
       <<\h00BD, \h00BD, "No", "Common">>,
       <<\h00E9, \h00E9, "Ll", "Latin">>,
       <<\h0300, \h0300, "Mn", "Inherited">>,
       <<\h03B1, \h03B1, "Ll", "Greek">>,
       <<\h0416, \h0416, "Lu", "Cyrillic">>,
       <<\h05D0, \h05D0, "Lo", "Hebrew">>,
       <<\h0627, \h0627, "Lo", "Arabic">>,
       <<\h0663, \h0663, "Nd", "Arabic">>,
       <<\h0905, \h0905, "Lo", "Devanagari">>,
       <<\h0B05, \h0B05, "Lo", "Oriya">>,
       <<\h0E01, \h0E01, "Lo", "Thai">>,
       <<\h10FF, \h10FF, "Ll", "Georgian">>,
       <<\h1100, \h11FF, "Lo", "Hangul">>,
       <<\h1200, \h1200, "Lo", "Ethiopic">>,
       <<\h13A0, \h13A0, "Lu", "Cherokee">>,
       <<\h1401, \h1401, "Lo", "Canadian_Aboriginal">>,
       <<\h167F, \h167F, "Lo", "Canadian_Aboriginal">>,
       <<\h1680, \h1680, "Zs", "Ogham">>,
       <<\h1681, \h1681, "Lo", "Ogham">>,
       <<\h16A0, \h16A0, "Lo", "Runic">>,
       <<\h2000, \h200A, "Zs", "Common">>,
       <<\h200B, \h200B, "Cf", "Common">>,
       <<\h200C, \h200D, "Cf", "Inherited">>,
       <<\h200E, \h200E, "Cf", "Common">>,
       <<\h2010, \h2010, "Pd", "Common">>,
       <<\h2014, \h2014, "Pd", "Common">>,
       <<\h2027, \h2027, "Po", "Common">>,
       <<\h2028, \h2028, "Zl", "Common">>,
       <<\h2029, \h2029, "Zp", "Common">>,
       <<\h202A, \h202A, "Cf", "Common">>,
       <<\h202E, \h202E, "Cf", "Common">>,
       <<\h202F, \h202F, "Zs", "Common">>,
       <<\h2030, \h2030, "Po", "Common">>,
       <<\h205E, \h205E, "Po", "Common">>,
       <<\h205F, \h205F, "Zs", "Common">>,
       <<\h2060, \h2060, "Cf", "Common">>,
       <<\h20AC, \h20AC, "Sc", "Common">>,
       <<\h2160, \h2160, "Nl", "Common">>,
       <<\h3000, \h3000, "Zs", "Common">>,
       <<\h3001, \h3001, "Po", "Common">>,
       <<\h3042, \h3042, "Lo", "Hiragana">>,
       <<\h30A2, \h30A2, "Lo", "Katakana">>,
       <<\h3105, \h3105, "Lo", "Bopomofo">>,
       <<\h312F, \h312F, "Lo", "Bopomofo">>,
       <<\h3131, \h318E, "Lo", "Hangul">>,
       <<\h3190, \h3190, "So", "Common">>,
       <<\h33FF, \h33FF, "So", "Common">>,
       <<\h3400, \h3400, "Lo", "Han">>,
       <<\h4DBF, \h4DBF, "Lo", "Han">>,
       <<\h4DC0, \h4DC0, "So", "Common">>,
       <<\h4DFF, \h4DFF, "So", "Common">>,
       <<\h4E00, \h4E00, "Lo", "Han">>,
       <<\h9FFF, \h9FFF, "Lo", "Han">>,
       <<\hA000, \hA000, "Lo", "Yi">>,
       <<\hA95F, \hA95F, "Po", "Rejang">>,
       <<\hA960, \hA97C, "Lo", "Hangul">>,
       <<\hA980, \hA980, "Mn", "Javanese">>,
       <<\hAC00, \hAC01, "Lo", "Hangul">>,
       <<\hB000, \hB000, "Lo", "Hangul">>,
       <<\hD7A2, \hD7A3, "Lo", "Hangul">>,
       <<\hD7B0, \hD7C6, "Lo", "Hangul">>,
       <<\hD7CB, \hD7FB, "Lo", "Hangul">>,
       <<\hD83D, \hD83D, "Cs", "Unknown">>,
       <<\hDE0A, \hDE0A, "Cs", "Unknown">>,
       <<\hE000, \hE000, "Co", "Unknown">>,
       <<\hFDFF, \hFDFF, "So", "Arabic">>,
       <<\hFE00, \hFE00, "Mn", "Inherited">>,
       <<\hFE0F, \hFE0F, "Mn", "Inherited">>,
       <<\hFE10, \hFE10, "Po", "Common">>,
       <<\hFEFF, \hFEFF, "Cf", "Common">>,
       <<\hFF21, \hFF21, "Lu", "Latin">>,
       <<\h10000, \h10000, "Lo", "Linear_B">>,
       <<\h1F000, \h1F000, "So", "Common">>,
       <<\h1F1E6, \h1F1E6, "So", "Common">>,
       <<\h1F3FB, \h1F3FB, "Sk", "Common">>,
       <<\h1F60A, \h1F60A, "So", "Common">>,
       <<\h20000, \h20000, "Lo", "Han">>,
       <<\h2A6DF, \h2A6DF, "Lo", "Han">>,
       <<\h2A700, \h2A700, "Lo", "Han">>,
       <<\h2B740, \h2B740, "Lo", "Han">>,
       <<\h2B820, \h2B820, "Lo", "Han">>,
       <<\h2CEB0, \h2CEB0, "Lo", "Han">>,
       <<\h30000, \h30000, "Lo", "Han">>,
       <<\hE0001, \hE0001, "Cf", "Common">>,
       <<\hE0020, \hE0020, "Cf", "Common">>,
       <<\hE0100, \hE0100, "Mn", "Inherited">>,
       <<\hE01EF, \hE01EF, "Mn", "Inherited">> >>

\* the row of table that holds cp, as [gc, sc]
UcdRow(table, cp) ==
    IF \E i \in 1..Len(table) : cp >= table[i][1] /\ cp <= table[i][2]
    THEN LET row == table[CHOOSE i \in 1..Len(table) :
                              cp >= table[i][1] /\ cp <= table[i][2]]
         IN  [gc |-> row[3], sc |-> row[4]]
    ELSE [gc |-> "Cn", sc |-> "Unknown"]

\* the table, indexed by code point
UcdIndex ==
    [cp \in UNION {UcdTable[i][1]..UcdTable[i][2] : i \in 1..Len(UcdTable)} |->
        UcdRow(UcdTable, cp)]

\* the General_Category and Script of cp
Ucd(cp) ==
    IF cp \in DOMAIN UcdIndex THEN UcdIndex[cp]
    ELSE [gc |-> "Cn", sc |-> "Unknown"]

\* the General_Category values a one-letter value stands for
GcGroups ==
    [ L |-> {"Lu", "Ll", "Lt", "Lm", "Lo"},
      M |-> {"Mn", "Mc", "Me"},
      N |-> {"Nd", "Nl", "No"},
      P |-> {"Pc", "Pd", "Ps", "Pe", "Pi", "Pf", "Po"},
      S |-> {"Sm", "Sc", "Sk", "So"},
      Z |-> {"Zs", "Zl", "Zp"},
      C |-> {"Cc", "Cf", "Cs", "Co", "Cn"} ]

\* emoji-data.txt (Unicode 14.0), restricted to the code points of UcdTable
UcdEmoji ==
    {\h0023, \h002A} \cup (\h0030..\h0039)
        \cup {\h00A9, \h1F1E6, \h1F3FB, \h1F60A}
UcdEmojiComponent ==
    {\h0023, \h002A} \cup (\h0030..\h0039)
        \cup {\h200D, \hFE0F, \h1F1E6, \h1F3FB, \hE0020}
UcdExtendedPictographic == {\h00A9, \h1F000, \h1F60A}

-----------------------------------------------------------------------------
(* 0. Unicode property escape support *)

PropExpr(prop, value) == [prop |-> prop, value |-> value]

\* new RegExp(source, 'u') in try/catch: the RegExp, or null when the engine
\* rejects the property expression
_makeUnicodeRegExp(source) == IF source \in engine THEN source ELSE Null

_SUPPORTS_PROP_ESCAPES == _makeUnicodeRegExp(PropExpr("L", "")) # Null

\* whether a code point cp, with database entry u, has the property re
HasProperty(re, cp, u) ==
    CASE re.prop = "gc" ->
             IF re.value \in DOMAIN GcGroups
             THEN u.gc \in GcGroups[re.value]
             ELSE u.gc = re.value
      [] re.prop = "Script" -> u.sc = re.value
      [] re.prop = "L" -> u.gc \in GcGroups.L
      [] re.prop = "Extended_Pictographic" -> cp \in UcdExtendedPictographic
      [] re.prop = "Emoji" -> cp \in UcdEmoji
      [] re.prop = "Emoji_Component" -> cp \in UcdEmojiComponent
      [] OTHER -> FALSE

\* re.test(ch) for a compiled ^\p{...}$ and a string ch: ch must be exactly
\* one code point, and that code point must have the property
RegExpTest(re, ch) ==
    /\ ch # <<>>
    /\ Len(ch) = Len(FromCodePoint(CodePointAt(ch, 1)))
    /\ HasProperty(re, CodePointAt(ch, 1), Ucd(CodePointAt(ch, 1)))

\* `re && re.test(ch)`
Guarded(re, ch) == re # Null /\ RegExpTest(re, ch)

-----------------------------------------------------------------------------
(* 1. White_Space sub-classification *)

WS_SUB ==
    [ SPACE_SEP   |-> "Space Separator",
      FIXED_WIDTH |-> "Fixed-Width Space",
      TAB         |-> "Control:Tab",
      LINE_BREAK  |-> "Control:Line Break",
      ZERO_WIDTH  |-> "Invisible:Zero Width" ]

_WS_TAB == \h0009
_WS_LINE_BREAK_RANGES == << <<\h000A, \h000D>>, <<\h2028, \h2029>> >>
_WS_LINE_BREAK_SINGLES == <<\h0085>>
_WS_SPACE_SEPARATOR_SINGLES == <<\h0020, \h00A0, \h1680, \h3000>>
_WS_FIXED_WIDTH_RANGES == << <<\h2000, \h200A>> >>
_WS_FIXED_WIDTH_SINGLES == <<\h202F, \h205F>>
_WS_ZERO_WIDTH_SINGLES == <<\h200B>>

_inRanges(cp, ranges) ==
    \E i \in 1..Len(ranges) : cp >= ranges[i][1] /\ cp <= ranges[i][2]

_inSingles(cp, singles) == \E i \in 1..Len(singles) : cp = singles[i]

_classifyWhitespace(cp) ==
    IF _inSingles(cp, _WS_ZERO_WIDTH_SINGLES)
    THEN Label("Whitespace", WS_SUB.ZERO_WIDTH)
    ELSE IF cp = _WS_TAB
    THEN Label("Whitespace", WS_SUB.TAB)
    ELSE IF _inRanges(cp, _WS_LINE_BREAK_RANGES) \/ _inSingles(cp, _WS_LINE_BREAK_SINGLES)
    THEN Label("Whitespace", WS_SUB.LINE_BREAK)
    ELSE IF _inSingles(cp, _WS_SPACE_SEPARATOR_SINGLES)
    THEN Label("Whitespace", WS_SUB.SPACE_SEP)
    ELSE IF _inRanges(cp, _WS_FIXED_WIDTH_RANGES) \/ _inSingles(cp, _WS_FIXED_WIDTH_SINGLES)
    THEN Label("Whitespace", WS_SUB.FIXED_WIDTH)
    ELSE NoLabel

-----------------------------------------------------------------------------
(* 2. Emoji and related code points *)

_RE_EXT_PICTO ==
    IF _SUPPORTS_PROP_ESCAPES
    THEN _makeUnicodeRegExp(PropExpr("Extended_Pictographic", "")) ELSE Null
_RE_EMOJI ==
    IF _SUPPORTS_PROP_ESCAPES
    THEN _makeUnicodeRegExp(PropExpr("Emoji", "")) ELSE Null
_RE_EMOJI_COMPONENT ==
    IF _SUPPORTS_PROP_ESCAPES
    THEN _makeUnicodeRegExp(PropExpr("Emoji_Component", "")) ELSE Null

_VS_BASIC_RANGE == <<\hFE00, \hFE0F>>
_VS_SUPP_RANGE == <<\hE0100, \hE01EF>>

\* mutant: `_RE_EXT_PICTO.test(ch)` without the null guard
_classifyEmoji_unguarded(ch, cp) ==
    IF \/ (cp >= _VS_BASIC_RANGE[1] /\ cp <= _VS_BASIC_RANGE[2])
       \/ (cp >= _VS_SUPP_RANGE[1] /\ cp <= _VS_SUPP_RANGE[2])
    THEN Label("Emoji", "Variation Selector")
    ELSE IF _RE_EXT_PICTO = Null THEN Thrown
    ELSE IF RegExpTest(_RE_EXT_PICTO, ch)
    THEN Label("Emoji", "Extended Pictographic")
    ELSE IF Guarded(_RE_EMOJI, ch)
    THEN IF Guarded(_RE_EMOJI_COMPONENT, ch)
         THEN Label("Emoji", "Emoji Component")
         ELSE Label("Emoji", Undefined)
    ELSE NoLabel

\* mutant: the Emoji property is tested before Extended_Pictographic
_classifyEmoji_emojiFirst(ch, cp) ==
    IF \/ (cp >= _VS_BASIC_RANGE[1] /\ cp <= _VS_BASIC_RANGE[2])
       \/ (cp >= _VS_SUPP_RANGE[1] /\ cp <= _VS_SUPP_RANGE[2])
    THEN Label("Emoji", "Variation Selector")
    ELSE IF Guarded(_RE_EMOJI, ch)
    THEN IF Guarded(_RE_EMOJI_COMPONENT, ch)
         THEN Label("Emoji", "Emoji Component")
         ELSE Label("Emoji", Undefined)
    ELSE IF Guarded(_RE_EXT_PICTO, ch)
    THEN Label("Emoji", "Extended Pictographic")
    ELSE NoLabel

_classifyEmoji(ch, cp) ==
    IF \/ (cp >= _VS_BASIC_RANGE[1] /\ cp <= _VS_BASIC_RANGE[2])
       \/ (cp >= _VS_SUPP_RANGE[1] /\ cp <= _VS_SUPP_RANGE[2])
    THEN Label("Emoji", "Variation Selector")
    ELSE IF Guarded(_RE_EXT_PICTO, ch)
    THEN Label("Emoji", "Extended Pictographic")
    ELSE IF Guarded(_RE_EMOJI, ch)
    THEN IF Guarded(_RE_EMOJI_COMPONENT, ch)
         THEN Label("Emoji", "Emoji Component")
         ELSE Label("Emoji", Undefined)
    ELSE NoLabel

-----------------------------------------------------------------------------
(* 3. Hangul sub-classification.  In the source the two extended subs are  *)
(* written with U+2011 NON-BREAKING HYPHEN ('Jamo Ext<U+2011>A'), shown    *)
(* here as '-'.                                                            *)

\* mutant: the syllable range ends one code point early (< for <=)
_classifyHangul_shortSyllables(cp) ==
    IF cp >= \hAC00 /\ cp < \hD7A3 THEN Label("Hangul", "Syllable")
    ELSE IF cp >= \h1100 /\ cp <= \h11FF THEN Label("Hangul", "Jamo")
    ELSE IF cp >= \hA960 /\ cp <= \hA97F THEN Label("Hangul", "Jamo Ext-A")
    ELSE IF cp >= \hD7B0 /\ cp <= \hD7FF THEN Label("Hangul", "Jamo Ext-B")
    ELSE IF cp >= \h3130 /\ cp <= \h318F THEN Label("Hangul", "Compatibility Jamo")
    ELSE NoLabel

_classifyHangul(cp) ==
    IF cp >= \hAC00 /\ cp <= \hD7A3 THEN Label("Hangul", "Syllable")
    ELSE IF cp >= \h1100 /\ cp <= \h11FF THEN Label("Hangul", "Jamo")
    ELSE IF cp >= \hA960 /\ cp <= \hA97F THEN Label("Hangul", "Jamo Ext-A")
    ELSE IF cp >= \hD7B0 /\ cp <= \hD7FF THEN Label("Hangul", "Jamo Ext-B")
    ELSE IF cp >= \h3130 /\ cp <= \h318F THEN Label("Hangul", "Compatibility Jamo")
    ELSE NoLabel

-----------------------------------------------------------------------------
(* 4. General category and script *)

GcRegExp(value) ==
    IF _SUPPORTS_PROP_ESCAPES THEN _makeUnicodeRegExp(PropExpr("gc", value)) ELSE Null

_RE_GC_LETTER == GcRegExp("L")
_RE_GC_MARK == GcRegExp("M")
_RE_GC_DECIMAL == GcRegExp("Nd")
_RE_GC_NUMBER == GcRegExp("N")
_RE_GC_PUNCT == GcRegExp("P")
_RE_GC_SYMBOL == GcRegExp("S")
_RE_GC_SEP == GcRegExp("Z")
_RE_GC_CTRL == GcRegExp("Cc")
_RE_GC_FORMAT == GcRegExp("Cf")

\* the first alias whose \p{Script=...} compiles, else null
RECURSIVE _compileScriptRegex(_)
_compileScriptRegex(aliases) ==
    IF aliases = <<>> THEN Null
    ELSE IF _makeUnicodeRegExp(PropExpr("Script", Head(aliases))) # Null
    THEN PropExpr("Script", Head(aliases))
    ELSE _compileScriptRegex(Tail(aliases))

\* the add(label, aliases) calls, in order
ScriptAdds ==
    << <<"Hangul", <<"Hangul">> >>,
       <<"Han Ideograph", <<"Han">> >>,
       <<"Hiragana", <<"Hiragana">> >>,
       <<"Katakana", <<"Katakana">> >>,
       <<"Bopomofo", <<"Bopomofo">> >>,
       <<"Latin", <<"Latin">> >>,
       <<"Greek", <<"Greek">> >>,
       <<"Cyrillic", <<"Cyrillic">> >>,
       <<"Hebrew", <<"Hebrew">> >>,
       <<"Arabic", <<"Arabic">> >>,
       <<"Devanagari", <<"Devanagari">> >>,
       <<"Bengali", <<"Bengali">> >>,
       <<"Gurmukhi", <<"Gurmukhi">> >>,
       <<"Gujarati", <<"Gujarati">> >>,
       <<"Odia", <<"Odia", "Oriya">> >>,
       <<"Tamil", <<"Tamil">> >>,
       <<"Telugu", <<"Telugu">> >>,
       <<"Kannada", <<"Kannada">> >>,
       <<"Malayalam", <<"Malayalam">> >>,
       <<"Sinhala", <<"Sinhala">> >>,
       <<"Thai", <<"Thai">> >>,
       <<"Lao", <<"Lao">> >>,
       <<"Khmer", <<"Khmer">> >>,
       <<"Myanmar", <<"Myanmar">> >>,
       <<"Tibetan", <<"Tibetan">> >>,
       <<"Mongolian", <<"Mongolian">> >>,
       <<"Armenian", <<"Armenian">> >>,
       <<"Georgian", <<"Georgian">> >>,
       <<"Ethiopic", <<"Ethiopic">> >>,
       <<"Cherokee", <<"Cherokee">> >>,
       <<"Canadian Aboriginal", <<"Canadian_Aboriginal">> >>,
       <<"Runic", <<"Runic">> >>,
       <<"Ogham", <<"Ogham">> >>,
       <<"Yi", <<"Yi">> >> >>

HasRegExp(d) == d.re # Null

\* the {label, re} detectors whose RegExp compiled, in the order added
_SCRIPT_DETECTORS ==
    SelectSeq([i \in 1..Len(ScriptAdds) |->
                  [label |-> ScriptAdds[i][1],
                   re |-> _compileScriptRegex(ScriptAdds[i][2])]],
              HasRegExp)

\* the first detector's label whose RegExp matches, else null ("")
RECURSIVE FirstScriptLabel(_, _)
FirstScriptLabel(detectors, ch) ==
    IF detectors = <<>> THEN ""
    ELSE IF RegExpTest(Head(detectors).re, ch) THEN Head(detectors).label
    ELSE FirstScriptLabel(Tail(detectors), ch)

_detectScriptLabel(ch) == FirstScriptLabel(_SCRIPT_DETECTORS, ch)

-----------------------------------------------------------------------------
(* 5. ASCII fast path *)

\* mutant: the last punctuation range ends one code point early (< for <=)
_classifyAscii_shortPunctuation(cp) ==
    IF cp <= \h1F \/ cp = \h7F THEN Label("Control", Undefined)
    ELSE IF cp >= \h30 /\ cp <= \h39 THEN Label("Digit", "ASCII")
    ELSE IF cp >= \h41 /\ cp <= \h5A THEN Label("Latin", "Uppercase")
    ELSE IF cp >= \h61 /\ cp <= \h7A THEN Label("Latin", "Lowercase")
    ELSE IF \/ (cp >= \h21 /\ cp <= \h2F)
            \/ (cp >= \h3A /\ cp <= \h40)
            \/ (cp >= \h5B /\ cp <= \h60)
            \/ (cp >= \h7B /\ cp < \h7E)
    THEN Label("Punctuation", "ASCII")
    ELSE Label("Other", "ASCII")

_classifyAscii(cp) ==
    IF cp <= \h1F \/ cp = \h7F THEN Label("Control", Undefined)
    ELSE IF cp >= \h30 /\ cp <= \h39 THEN Label("Digit", "ASCII")
    ELSE IF cp >= \h41 /\ cp <= \h5A THEN Label("Latin", "Uppercase")
    ELSE IF cp >= \h61 /\ cp <= \h7A THEN Label("Latin", "Lowercase")
    ELSE IF \/ (cp >= \h21 /\ cp <= \h2F)
            \/ (cp >= \h3A /\ cp <= \h40)
            \/ (cp >= \h5B /\ cp <= \h60)
            \/ (cp >= \h7B /\ cp <= \h7E)
    THEN Label("Punctuation", "ASCII")
    ELSE Label("Other", "ASCII")

-----------------------------------------------------------------------------
(* 7. The classification routine *)

\* step 5-3: the label of a letter whose script detection gave scriptLabel
LetterLabel(scriptLabel) ==
    IF Truthy(scriptLabel)
    THEN Label(scriptLabel, "Letter")
    ELSE Label("Letter", "Other Script")

\* mutant: the Number test comes before the Decimal Number test
ClassifyByProperties_numberFirst(ch, cp) ==
    IF Guarded(_RE_GC_CTRL, ch) THEN Label("Control", Undefined)
    ELSE IF Guarded(_RE_GC_FORMAT, ch)
    THEN IF cp = \h200D THEN Label("Format", "ZWJ")
         ELSE IF cp = \h200C THEN Label("Format", "ZWNJ")
         ELSE IF cp = \hFEFF THEN Label("Format", "BOM/ZWNBS")
         ELSE Label("Format", Undefined)
    ELSE IF Guarded(_RE_GC_LETTER, ch)
    THEN LetterLabel(_detectScriptLabel(ch))
    ELSE IF Guarded(_RE_GC_MARK, ch) THEN Label("Mark", Undefined)
    ELSE IF Guarded(_RE_GC_NUMBER, ch) THEN Label("Number", Undefined)
    ELSE IF Guarded(_RE_GC_DECIMAL, ch) THEN Label("Digit", "Decimal")
    ELSE IF Guarded(_RE_GC_PUNCT, ch) THEN Label("Punctuation", Undefined)
    ELSE IF Guarded(_RE_GC_SYMBOL, ch) THEN Label("Symbol", Undefined)
    ELSE IF Guarded(_RE_GC_SEP, ch) THEN Label("Separator", Undefined)
    ELSE NoLabel

\* step 5: the property-based tests, in order; NoLabel when none matches
ClassifyByProperties(ch, cp) ==
    IF Guarded(_RE_GC_CTRL, ch) THEN Label("Control", Undefined)
    ELSE IF Guarded(_RE_GC_FORMAT, ch)
    THEN IF cp = \h200D THEN Label("Format", "ZWJ")
         ELSE IF cp = \h200C THEN Label("Format", "ZWNJ")
         ELSE IF cp = \hFEFF THEN Label("Format", "BOM/ZWNBS")
         ELSE Label("Format", Undefined)
    ELSE IF Guarded(_RE_GC_LETTER, ch)
    THEN LetterLabel(_detectScriptLabel(ch))
    ELSE IF Guarded(_RE_GC_MARK, ch) THEN Label("Mark", Undefined)
    ELSE IF Guarded(_RE_GC_DECIMAL, ch) THEN Label("Digit", "Decimal")
    ELSE IF Guarded(_RE_GC_NUMBER, ch) THEN Label("Number", Undefined)
    ELSE IF Guarded(_RE_GC_PUNCT, ch) THEN Label("Punctuation", Undefined)
    ELSE IF Guarded(_RE_GC_SYMBOL, ch) THEN Label("Symbol", Undefined)
    ELSE IF Guarded(_RE_GC_SEP, ch) THEN Label("Separator", Undefined)
    ELSE NoLabel

\* step 6: CJK Unified Ideographs and extensions A-J
CjkRanges ==
    << <<\h4E00, \h9FFF>>, <<\h3400, \h4DBF>>,
       <<\h20000, \h2A6DF>>, <<\h2A700, \h2B73F>>,
       <<\h2B740, \h2B81F>>, <<\h2B820, \h2CEAF>>,
       <<\h2CEB0, \h2EBEF>>,
       <<\h30000, \h3134F>>,
       <<\h31350, \h323AF>>,
       <<\h2EBF0, \h2EE5F>>,
       <<\h323B0, \h3347F>> >>

\* mutant: the final `return { main: 'Other' }` is missing, so the function
\* falls off its end and returns undefined
RangeFallback_noDefault(cp) ==
    IF _inRanges(cp, CjkRanges)
    THEN Label("Han Ideograph", Undefined)
    ELSE Label(Undefined, Undefined)

RangeFallback(cp) ==
    IF _inRanges(cp, CjkRanges)
    THEN Label("Han Ideograph", Undefined)
    ELSE Label("Other", Undefined)

\* `const x = detector; if (x) return x;` followed by the rest of the chain
FirstMatch(x, rest) == IF x # NoLabel THEN x ELSE rest

\* mutant: the CJK ranges are consulted before the property-based tests
_classifyCodePoint_rangesBeforeProperties(ch, cp) ==
    FirstMatch(_classifyWhitespace(cp),
        IF cp <= \h7F THEN _classifyAscii(cp)
        ELSE FirstMatch(_classifyEmoji(ch, cp),
             FirstMatch(_classifyHangul(cp),
             FirstMatch(IF _inRanges(cp, CjkRanges)
                        THEN Label("Han Ideograph", Undefined) ELSE NoLabel,
             FirstMatch(IF _SUPPORTS_PROP_ESCAPES
                        THEN ClassifyByProperties(ch, cp) ELSE NoLabel,
                        RangeFallback(cp))))))

\* mutant: the ASCII fast path runs before the whitespace detector
_classifyCodePoint_asciiFirst(ch, cp) ==
    IF cp <= \h7F THEN _classifyAscii(cp)
    ELSE FirstMatch(_classifyWhitespace(cp),
         FirstMatch(_classifyEmoji(ch, cp),
         FirstMatch(_classifyHangul(cp),
         FirstMatch(IF _SUPPORTS_PROP_ESCAPES
                    THEN ClassifyByProperties(ch, cp) ELSE NoLabel,
                    RangeFallback(cp)))))

\* mutant: the emoji detector runs before the ASCII fast path
_classifyCodePoint_emojiFirst(ch, cp) ==
    FirstMatch(_classifyWhitespace(cp),
    FirstMatch(_classifyEmoji(ch, cp),
        IF cp <= \h7F THEN _classifyAscii(cp)
        ELSE FirstMatch(_classifyHangul(cp),
             FirstMatch(IF _SUPPORTS_PROP_ESCAPES
                        THEN ClassifyByProperties(ch, cp) ELSE NoLabel,
                        RangeFallback(cp)))))

_classifyCodePoint(ch, cp) ==
    FirstMatch(_classifyWhitespace(cp),
        IF cp <= \h7F THEN _classifyAscii(cp)
        ELSE FirstMatch(_classifyEmoji(ch, cp),
             FirstMatch(_classifyHangul(cp),
             FirstMatch(IF _SUPPORTS_PROP_ESCAPES
                        THEN ClassifyByProperties(ch, cp) ELSE NoLabel,
                        RangeFallback(cp)))))

-----------------------------------------------------------------------------
(* 8. Public API *)

\* a cache miss: `_memo.set(cp, result); return result;`, unless computing
\* result threw
\* mutant: the cache is cleared before the new entry is set
MemoSet_evicting(memo, cp, result) ==
    IF result = Thrown
    THEN [outcome |-> "TypeError", label |-> NoLabel, memo |-> memo]
    ELSE [outcome |-> "ok", label |-> result, memo |-> (cp :> result)]

MemoSet(memo, cp, result) ==
    IF result = Thrown
    THEN [outcome |-> "TypeError", label |-> NoLabel, memo |-> memo]
    ELSE [outcome |-> "ok", label |-> result, memo |-> (cp :> result) @@ memo]

\* mutant: the cache is keyed by the first code unit (charCodeAt(0))
getCharacterType_codeUnitKey(memo, char) ==
    IF char = NotAString \/ Len(char) = 0
    THEN [outcome |-> "TypeError", label |-> NoLabel, memo |-> memo]
    ELSE IF char[1] \in DOMAIN memo
    THEN [outcome |-> "ok", label |-> memo[char[1]], memo |-> memo]
    ELSE MemoSet(memo, char[1],
                 _classifyCodePoint(FromCodePoint(CodePointAt(char, 1)),
                                    CodePointAt(char, 1)))

\* mutant: `const cp = char.charCodeAt(0)`: the first code unit is classified
getCharacterType_firstCodeUnit(memo, char) ==
    IF char = NotAString \/ Len(char) = 0
    THEN [outcome |-> "TypeError", label |-> NoLabel, memo |-> memo]
    ELSE IF char[1] \in DOMAIN memo
    THEN [outcome |-> "ok", label |-> memo[char[1]], memo |-> memo]
    ELSE MemoSet(memo, char[1], _classifyCodePoint(FromCodePoint(char[1]), char[1]))

\* getCharacterType(char) run against cache memo: what it returns or throws,
\* and the cache it leaves
getCharacterType(memo, char) ==
    IF char = NotAString \/ Len(char) = 0
    THEN [outcome |-> "TypeError", label |-> NoLabel, memo |-> memo]
    ELSE IF CodePointAt(char, 1) \in DOMAIN memo
    THEN [outcome |-> "ok", label |-> memo[CodePointAt(char, 1)], memo |-> memo]
    ELSE MemoSet(memo, CodePointAt(char, 1),
                 _classifyCodePoint(FromCodePoint(CodePointAt(char, 1)),
                                    CodePointAt(char, 1)))

\* mutant: `granularity === 'sub' ? `${main}:${sub}` : main`
LabelKey_noSubTest(granularity, label) ==
    IF granularity = "sub"
    THEN TemplateString(label.main) \o ":" \o TemplateString(label.sub)
    ELSE label.main

\* the bucket key of a label
LabelKey(granularity, label) ==
    IF granularity = "sub" /\ Truthy(label.sub)
    THEN TemplateString(label.main) \o ":" \o TemplateString(label.sub)
    ELSE label.main

\* `bucket.count++; bucket.chars.add(ch);` on the bucket of label, created
\* as {count: 0, chars: new Set()} when missing
AddToBucket(breakdown, label, ch) ==
    [k \in DOMAIN breakdown \cup {label} |->
        IF k # label THEN breakdown[k]
        ELSE IF label \in DOMAIN breakdown
        THEN [count |-> breakdown[label].count + 1,
              chars |-> breakdown[label].chars \cup {ch}]
        ELSE [count |-> 1, chars |-> {ch}]]

\* one pass of the body of `for (const ch of text)`, r being what
\* getCharacterType(ch) gave; acc is [memo, breakdown, total, outcome]
LoopBody(acc, ch, granularity, r) ==
    IF r.outcome # "ok"
    THEN [acc EXCEPT !.outcome = r.outcome, !.memo = r.memo]
    ELSE [memo |-> r.memo,
          breakdown |-> AddToBucket(acc.breakdown, LabelKey(granularity, r.label), ch),
          total |-> acc.total + 1,
          outcome |-> "ok"]

\* the loop over the characters chs, from the i-th on
RECURSIVE AnalyzeLoop(_, _, _, _)
AnalyzeLoop(chs, i, granularity, acc) ==
    IF i > Len(chs) \/ acc.outcome # "ok" THEN acc
    ELSE AnalyzeLoop(chs, i + 1, granularity,
             LoopBody(acc, chs[i], granularity, getCharacterType(acc.memo, chs[i])))

\* x < y for strings, as Array.prototype.sort() compares them by default:
\* by UTF-16 code units
CodeUnitLess(x, y) ==
    \E i \in 1..(Len(x) + 1) :
        /\ \A j \in 1..(i - 1) : j <= Len(y) /\ x[j] = y[j]
        /\ \/ i = Len(x) + 1 /\ Len(y) >= i
           \/ i <= Len(x) /\ i <= Len(y) /\ x[i] < y[i]

\* mutant: sort((a, b) => a.codePointAt(0) - b.codePointAt(0))
RECURSIVE ArraySort_byCodePoint(_)
ArraySort_byCodePoint(S) ==
    IF S = {} THEN <<>>
    ELSE LET m == CHOOSE x \in S :
                      \A y \in S \ {x} : CodePointAt(x, 1) < CodePointAt(y, 1)
         IN  <<m>> \o ArraySort_byCodePoint(S \ {m})

\* Array.from(set).sort()
RECURSIVE ArraySort(_)
ArraySort(S) ==
    IF S = {} THEN <<>>
    ELSE LET m == CHOOSE x \in S : \A y \in S \ {x} : CodeUnitLess(x, y)
         IN  <<m>> \o ArraySort(S \ {m})

\* mutant: Math.floor(count * 100 / total * 100) / 100
Ratio_truncated(count, total) ==
    IF total > 0 THEN (count * 100 * 100) \div total ELSE 0

\* +(count * 100 / total).toFixed(2), in hundredths of a percent
Ratio(count, total) ==
    IF total > 0 THEN (2 * count * 100 * 100 + total) \div (2 * total) ELSE 0

\* the second loop (ratio and sorted chars of every bucket) and the return
Finish(acc) ==
    IF acc.outcome # "ok"
    THEN [outcome |-> acc.outcome, total |-> 0, breakdown |-> <<>>,
          memo |-> acc.memo]
    ELSE [outcome |-> "ok",
          total |-> acc.total,
          breakdown |-> [k \in DOMAIN acc.breakdown |->
              [count |-> acc.breakdown[k].count,
               ratio |-> Ratio(acc.breakdown[k].count, acc.total),
               chars |-> ArraySort(acc.breakdown[k].chars)]],
          memo |-> acc.memo]

\* `{ granularity = 'main' } = {}`
DefaultGranularity(granularity) ==
    IF granularity = Undefined THEN "main" ELSE granularity

\* mutant: the granularity is validated after the loop over the text
analyzeText_validateAfterLoop(memo, text, granularity) ==
    IF text = NotAString
    THEN [outcome |-> "TypeError", total |-> 0, breakdown |-> <<>>, memo |-> memo]
    ELSE IF /\ DefaultGranularity(granularity) # "main"
            /\ DefaultGranularity(granularity) # "sub"
    THEN [outcome |-> "RangeError", total |-> 0, breakdown |-> <<>>,
          memo |-> AnalyzeLoop(StringIterator(text), 1, "main",
                       [memo |-> memo, breakdown |-> <<>>, total |-> 0,
                        outcome |-> "ok"]).memo]
    ELSE Finish(AnalyzeLoop(StringIterator(text), 1, DefaultGranularity(granularity),
                    [memo |-> memo, breakdown |-> <<>>, total |-> 0,
                     outcome |-> "ok"]))

\* mutant: the granularity is validated before the type of text
analyzeText_granularityFirst(memo, text, granularity) ==
    IF /\ DefaultGranularity(granularity) # "main"
       /\ DefaultGranularity(granularity) # "sub"
    THEN [outcome |-> "RangeError", total |-> 0, breakdown |-> <<>>, memo |-> memo]
    ELSE IF text = NotAString
    THEN [outcome |-> "TypeError", total |-> 0, breakdown |-> <<>>, memo |-> memo]
    ELSE Finish(AnalyzeLoop(StringIterator(text), 1, DefaultGranularity(granularity),
                    [memo |-> memo, breakdown |-> <<>>, total |-> 0,
                     outcome |-> "ok"]))

\* analyzeText(text, {granularity}) run against cache memo
analyzeText(memo, text, granularity) ==
    IF text = NotAString
    THEN [outcome |-> "TypeError", total |-> 0, breakdown |-> <<>>, memo |-> memo]
    ELSE IF /\ DefaultGranularity(granularity) # "main"
            /\ DefaultGranularity(granularity) # "sub"
    THEN [outcome |-> "RangeError", total |-> 0, breakdown |-> <<>>, memo |-> memo]
    ELSE Finish(AnalyzeLoop(StringIterator(text), 1, DefaultGranularity(granularity),
                    [memo |-> memo, breakdown |-> <<>>, total |-> 0,
                     outcome |-> "ok"]))

-----------------------------------------------------------------------------
(* The runtimes and the inputs *)

GcValues == {"L", "M", "Nd", "N", "P", "S", "Z", "Cc", "Cf"}

\* the script names an ES2018+ engine accepts among those the source asks
\* for ('Odia' is not a Script value; 'Oriya' is)
ScriptValues ==
    ({ScriptAdds[i][2][1] : i \in 1..Len(ScriptAdds)} \ {"Odia"}) \cup {"Oriya"}

\* an engine with full property escape support
FullEngine ==
    {PropExpr("L", ""), PropExpr("Extended_Pictographic", ""),
     PropExpr("Emoji", ""), PropExpr("Emoji_Component", "")}
        \cup {PropExpr("gc", v) : v \in GcValues}
        \cup {PropExpr("Script", s) : s \in ScriptValues}

\* an engine without property escapes
NoEngine == {}

\* engines that lack one property expression the source asks for
PartialEngines ==
    {FullEngine \ {p} :
        p \in ({PropExpr("Extended_Pictographic", ""), PropExpr("Emoji", ""),
                PropExpr("Emoji_Component", ""), PropExpr("Script", "Latin"),
                PropExpr("Script", "Han"), PropExpr("Script", "Oriya")}
               \cup {PropExpr("gc", v) : v \in GcValues})}

Engines == {FullEngine, NoEngine} \cup PartialEngines

ApiEngines ==
    {FullEngine, NoEngine, FullEngine \ {PropExpr("Extended_Pictographic", "")}}

\* the five whitespace sets
WhitespaceCodePoints ==
    {\h200B, \h0009, \h0085, \h0020, \h00A0, \h1680, \h3000, \h202F, \h205F}
        \cup (\h000A..\h000D) \cup (\h2028..\h2029) \cup (\h2000..\h200A)

\* the four small Hangul ranges, whole
HangulJamoCodePoints ==
    (\h1100..\h11FF) \cup (\hA960..\hA97F) \cup (\hD7B0..\hD7FF)
        \cup (\h3130..\h318F)

\* scalar values at and around the boundaries of every range the source
\* names, and one or more of every General_Category the source tests
ProbeCodePoints ==
    {\h80, \h84, \h86, \h9F, \hA1, \hA9, \hAD, \hBD, \hE9, \h300, \h3B1,
     \h416, \h5D0, \h627, \h663, \h905, \hB05, \hE01, \h10FF, \h1200,
     \h13A0, \h1401, \h167F, \h1681, \h16A0, \h1FFF, \h200C, \h200D,
     \h200E, \h2010, \h2014, \h2027, \h202A, \h202E, \h2030, \h205E,
     \h2060, \h20AC, \h2160, \h3001, \h3042, \h30A2, \h3105, \h312F,
     \h3190, \h33FF, \h3400, \h4DBF, \h4DC0, \h4DFF, \h4E00, \h9FFF,
     \hA000, \hA95F, \hA980, \hABFF, \hAC00, \hAC01, \hB000, \hD7A2,
     \hD7A3, \hD7A4, \hD7AF, \hE000, \hFDFF, \hFE00, \hFE0F, \hFE10,
     \hFEFF, \hFF21, \hFFFF, \h10000, \h1F000, \h1F1E6, \h1F3FB,
     \h1F60A, \h1FFFF, \h20000, \h2A6DF, \h2A6E0, \h2A700, \h2B73F,
     \h2B740, \h2B81F, \h2B820, \h2CEAF, \h2CEB0, \h2EBEF, \h2EBF0,
     \h2EE5F, \h2EE60, \h2FFFF, \h30000, \h3134F, \h31350, \h323AF,
     \h323B0, \h3347F, \h33480, \hE0001, \hE0020, \hE00FF, \hE0100,
     \hE01EF, \hE01F0, \h10FFFF}

CodePoints ==
    (0..\h7F) \cup WhitespaceCodePoints \cup HangulJamoCodePoints
        \cup ProbeCodePoints

\* the longest text drawn from Units, in code units
MaxLen == 2

\* 'a' and the two surrogates of U+1F60A
Units == {\h61, \hD83D, \hDE0A}

Hello == <<\h48, \h65, \h6C, \h6C, \h6F>>
Aabbcc == <<\h61, \h61, \h62, \h62, \h63, \h63>>
HelloGaSmile == Hello \o <<\h20, \hAC00, \hD83D, \hDE0A>>
LetterSelectorSmile == <<\h61, \hFE0F, \hD83D, \hDE0A>>
SmileLetter == <<\hD83D, \hDE0A, \h61>>

Texts ==
    UNION {[1..n -> Units] : n \in 0..MaxLen}
        \cup {Hello, Aabbcc, HelloGaSmile, LetterSelectorSmile, SmileLetter}

Granularities == {Undefined, "main", "sub", "word"}

-----------------------------------------------------------------------------
(* The state machine *)

NoCall ==
    [op |-> "none", text |-> <<>>, gran |-> Undefined, outcome |-> "none",
     label |-> NoLabel, total |-> 0, breakdown |-> <<>>, cached |-> FALSE]

\* module initialization: the engine is fixed, the cache is empty
Init ==
    /\ engine \in ApiEngines
    /\ _memo = <<>>
    /\ last = NoCall

\* the call op(text, gran) ends with r: the cache is as the call left it,
\* and last holds what was returned or thrown, and whether the call was
\* served without adding to the cache
Returned(r, op, text, gran) ==
    /\ _memo' = r.memo
    /\ last' = [op |-> op, text |-> text, gran |-> gran, outcome |-> r.outcome,
                label |-> IF "label" \in DOMAIN r THEN r.label ELSE NoLabel,
                total |-> IF "total" \in DOMAIN r THEN r.total ELSE 0,
                breakdown |-> IF "breakdown" \in DOMAIN r THEN r.breakdown ELSE <<>>,
                cached |-> r.outcome = "ok" /\ r.memo = _memo]

CallGetCharacterType(char) ==
    /\ last.op = "none"
    /\ Returned(getCharacterType(_memo, char), "getCharacterType", char, Undefined)
    /\ UNCHANGED engine

CallAnalyzeText(text, granularity) ==
    /\ last.op = "none"
    /\ Returned(analyzeText(_memo, text, granularity), "analyzeText", text, granularity)
    /\ UNCHANGED engine

\* the caller takes the result (or the exception) of the call
Return ==
    /\ last.op \in {"getCharacterType", "analyzeText"}
    /\ last' = NoCall
    /\ UNCHANGED <<engine, _memo>>

Next ==
    \/ \E char \in Texts \cup {NotAString} : CallGetCharacterType(char)
    \/ \E text \in Texts \cup {NotAString}, granularity \in Granularities :
           CallAnalyzeText(text, granularity)
    \/ Return

Spec == Init /\ [][Next]_vars

\* the classifier alone: one code point, classified once on any engine
InitClassify ==
    /\ engine \in Engines
    /\ _memo = <<>>
    /\ \E cp \in CodePoints :
           last = [NoCall EXCEPT !.op = "classify", !.text = FromCodePoint(cp),
                                 !.outcome = "pending"]

Classified(result) ==
    last' = [last EXCEPT !.outcome = IF result = Thrown THEN "TypeError" ELSE "ok",
                         !.label = IF result = Thrown THEN NoLabel ELSE result]

Classify ==
    /\ last.op = "classify"
    /\ last.outcome = "pending"
    /\ Classified(_classifyCodePoint(last.text, CodePointAt(last.text, 1)))
    /\ UNCHANGED <<engine, _memo>>

NextClassify == Classify

SpecClassify == InitClassify /\ [][NextClassify]_vars

-----------------------------------------------------------------------------
(* Properties of the classifier (checked under SpecClassify) *)

\* the code point whose classification last holds
ClassifiedCp == CodePointAt(last.text, 1)

ClassifyDone == last.op = "classify" /\ last.outcome # "pending"

\* the main labels of the source
MainLabels ==
    {"Whitespace", "Control", "Digit", "Latin", "Punctuation", "Other", "Emoji",
     "Hangul", "Format", "Letter", "Mark", "Number", "Symbol", "Separator",
     "Han Ideograph"} \cup {ScriptAdds[i][1] : i \in 1..Len(ScriptAdds)}

\* no detector of the chain matches the code point of ch
NoDetectorMatches(ch, cp) ==
    /\ _classifyWhitespace(cp) = NoLabel
    /\ cp > \h7F
    /\ _classifyEmoji(ch, cp) = NoLabel
    /\ _classifyHangul(cp) = NoLabel
    /\ _SUPPORTS_PROP_ESCAPES => ClassifyByProperties(ch, cp) = NoLabel
    /\ ~_inRanges(cp, CjkRanges)

\* C1: on every engine (full, none, or lacking one property expression),
\* classifying a scalar value does not throw and gives one label whose main
\* is a defined, non-empty string of the vocabulary; when no detector matches,
\* the label is {main: 'Other'}.
C1_TotalLabelCoverage ==
    ClassifyDone =>
        /\ last.outcome = "ok"
        /\ DOMAIN last.label = {"main", "sub"}
        /\ Truthy(last.label.main)
        /\ last.label.main \in MainLabels
        /\ NoDetectorMatches(last.text, ClassifiedCp)
               => last.label = Label("Other", Undefined)

\* C1 witness: U+10FFFF, which no detector matches, was classified on an
\* engine without property escapes.
C1_Witness ==
    /\ ClassifyDone
    /\ engine = NoEngine
    /\ ClassifiedCp = \h10FFFF
    /\ NoDetectorMatches(last.text, ClassifiedCp)
    /\ last.label = Label("Other", Undefined)

\* the five whitespace sets as the claim C3 lists them
C3_ZeroWidth == {\h200B}
C3_Tab == {\h0009}
C3_LineBreak == (\h000A..\h000D) \cup {\h0085} \cup (\h2028..\h2029)
C3_SpaceSeparator == {\h0020, \h00A0, \h1680, \h3000}
C3_FixedWidth == (\h2000..\h200A) \cup {\h202F, \h205F}
C3_Sets ==
    <<C3_ZeroWidth, C3_Tab, C3_LineBreak, C3_SpaceSeparator, C3_FixedWidth>>
C3_Subs ==
    <<"Invisible:Zero Width", "Control:Tab", "Control:Line Break",
      "Space Separator", "Fixed-Width Space">>

\* the code points a list of ranges and a list of singles hold
SetOf(ranges, singles) ==
    UNION {ranges[i][1]..ranges[i][2] : i \in 1..Len(ranges)}
        \cup {singles[i] : i \in 1..Len(singles)}

\* the five whitespace sets as the source's tables give them
SourceWhitespaceSets ==
    << SetOf(<<>>, _WS_ZERO_WIDTH_SINGLES),
       {_WS_TAB},
       SetOf(_WS_LINE_BREAK_RANGES, _WS_LINE_BREAK_SINGLES),
       SetOf(<<>>, _WS_SPACE_SEPARATOR_SINGLES),
       SetOf(_WS_FIXED_WIDTH_RANGES, _WS_FIXED_WIDTH_SINGLES) >>

\* C3: every code point of the five whitespace sets is labelled Whitespace
\* with its set's sub, on every engine and whatever its General_Category and
\* whether or not it is ASCII; the five sets of the source are those listed
\* and are pairwise disjoint; no such code point is labelled Control, Latin,
\* Separator, Punctuation or Format.
C3_WhitespacePrecedence ==
    /\ SourceWhitespaceSets = C3_Sets
    /\ \A i, j \in 1..5 : i # j => C3_Sets[i] \cap C3_Sets[j] = {}
    /\ \A i \in 1..5 :
          (ClassifyDone /\ ClassifiedCp \in C3_Sets[i]) =>
              /\ last.label = Label("Whitespace", C3_Subs[i])
              /\ last.label.main \notin
                     {"Control", "Latin", "Separator", "Punctuation", "Format"}

\* C3 witness: U+0009, an ASCII control character (General_Category Cc), was
\* classified on a full engine as Whitespace / Control:Tab.
C3_Witness ==
    /\ ClassifyDone
    /\ engine = FullEngine
    /\ ClassifiedCp = \h0009
    /\ Ucd(ClassifiedCp).gc = "Cc"
    /\ last.label = Label("Whitespace", "Control:Tab")

\* the label the claim C4 gives an ASCII code point outside the whitespace sets
C4_Expected(cp) ==
    IF cp <= \h1F \/ cp = \h7F THEN Label("Control", Undefined)
    ELSE IF cp \in \h30..\h39 THEN Label("Digit", "ASCII")
    ELSE IF cp \in \h41..\h5A THEN Label("Latin", "Uppercase")
    ELSE IF cp \in \h61..\h7A THEN Label("Latin", "Lowercase")
    ELSE IF cp \in (\h21..\h2F) \cup (\h3A..\h40) \cup (\h5B..\h60) \cup (\h7B..\h7E)
    THEN Label("Punctuation", "ASCII")
    ELSE NoLabel

\* C4: on every engine, a code point <= 0x7F outside the whitespace sets gets
\* the label of the ASCII fast path: Control, Digit:ASCII, Latin:Uppercase,
\* Latin:Lowercase or Punctuation:ASCII by its range; never Emoji (though
\* '#', '*' and the digits have the Emoji property) and never Symbol (though
\* '$' has General_Category Sc).
C4_AsciiFastPath ==
    (ClassifyDone /\ ClassifiedCp <= \h7F
        /\ \A i \in 1..5 : ClassifiedCp \notin C3_Sets[i]) =>
        /\ last.label = C4_Expected(ClassifiedCp)
        /\ last.label # NoLabel
        /\ last.label.main \notin {"Emoji", "Symbol", "Hangul"}
        /\ ClassifiedCp = \h41 => last.label = Label("Latin", "Uppercase")
        /\ ClassifiedCp = \h35 => last.label = Label("Digit", "ASCII")
        /\ ClassifiedCp = \h24 => last.label = Label("Punctuation", "ASCII")

\* C4 witness: '#', which has the Emoji property, was classified on a full
\* engine as Punctuation:ASCII.
C4_Witness ==
    /\ ClassifyDone
    /\ engine = FullEngine
    /\ ClassifiedCp = \h23
    /\ ClassifiedCp \in UcdEmoji
    /\ last.label = Label("Punctuation", "ASCII")

\* the five Hangul ranges of the claim C6
C6_Ranges ==
    << \hAC00..\hD7A3, \h1100..\h11FF, \hA960..\hA97F, \hD7B0..\hD7FF,
       \h3130..\h318F >>

\* the subs the source gives the five ranges ('-' in the two extended ones
\* stands for the source's U+2011)
C6_Subs ==
    <<"Syllable", "Jamo", "Jamo Ext-A", "Jamo Ext-B", "Compatibility Jamo">>

\* the subs as the claim C6 words them
C6_ClaimedSubs ==
    <<"Syllable", "Jamo", "Jamo Extended-A", "Jamo Extended-B",
      "Compatibility Jamo">>

\* every code point of the five Hangul ranges has main Hangul and the sub
\* that subs gives its range, and no earlier detector claims it
HangulLabels(subs) ==
    /\ \A i, j \in 1..5 : i # j => subs[i] # subs[j]
    /\ \A i \in 1..5 :
          (ClassifyDone /\ ClassifiedCp \in C6_Ranges[i]) =>
              /\ last.label = Label("Hangul", subs[i])
              /\ _classifyWhitespace(ClassifiedCp) = NoLabel
              /\ ClassifiedCp > \h7F
              /\ _classifyEmoji(last.text, ClassifiedCp) = NoLabel

\* C6 (amended): on every engine, every code point of the five Hangul ranges
\* has main 'Hangul' and one of five pairwise distinct subs: Syllable, Jamo,
\* 'Jamo Ext-A', 'Jamo Ext-B' (as the source spells them), Compatibility
\* Jamo; U+AC00 is {Hangul, Syllable}; no earlier detector claims any of them.
C6_HangulRanges ==
    /\ HangulLabels(C6_Subs)
    /\ (ClassifyDone /\ ClassifiedCp = \hAC00) => last.label = Label("Hangul", "Syllable")

\* C6 as claimed: the subs of U+A960-U+A97F and U+D7B0-U+D7FF are
\* 'Jamo Extended-A' and 'Jamo Extended-B'.
C6_Original == HangulLabels(C6_ClaimedSubs)

\* C6 witness: U+D7A3, the last syllable, was classified on a full engine.
C6_Witness ==
    /\ ClassifyDone
    /\ engine = FullEngine
    /\ ClassifiedCp = \hD7A3
    /\ last.label = Label("Hangul", "Syllable")

-----------------------------------------------------------------------------
(* Properties of the public operations (checked under Spec) *)

Smile == <<\hD83D, \hDE0A>>

GetCharacterTypeDone == last.op = "getCharacterType" /\ last.outcome = "ok"

AnalyzeTextDone == last.op = "analyzeText" /\ last.outcome = "ok"

\* a fresh run of the detector chain on code point c
FreshClassification(c) == _classifyCodePoint(FromCodePoint(c), c)

\* C2: after any sequence of calls (whenever the last call has returned to
\* its caller) every cache entry memo[c] equals what a fresh run of the
\* detector chain gives for c, and the label a getCharacterType call returns
\* (from the cache or computed on a miss) equals the fresh classification of
\* the argument's first code point.
C2_CacheCoherence ==
    /\ last.op = "none" =>
           \A c \in DOMAIN _memo : _memo[c] = FreshClassification(c)
    /\ GetCharacterTypeDone =>
           last.label = FreshClassification(CodePointAt(last.text, 1))

\* C2 witness: getCharacterType('\u{1F60A}') was served from a cache that
\* also holds the entry of the lone surrogate U+D83D, its first code unit.
C2_Witness ==
    /\ GetCharacterTypeDone
    /\ last.cached
    /\ last.text = Smile
    /\ engine = FullEngine
    /\ {\hD83D, \h1F60A} \subseteq DOMAIN _memo
    /\ last.label = Label("Emoji", "Extended Pictographic")
    /\ _memo[\hD83D] = Label("Other", Undefined)

\* the engine compiles the property expression prop (the probe \p{L} too)
Supports(prop) ==
    /\ PropExpr("L", "") \in engine
    /\ PropExpr(prop, "") \in engine

CodePointStarts(text) ==
    {i \in 1..Len(text) :
        ~(i > 1 /\ IsLowSurrogate(text[i]) /\ IsHighSurrogate(text[i - 1]))}

\* the character that starts at position i of text
CharAt(text, i) == FromCodePoint(CodePointAt(text, i))

\* the bucket key the granularity gives a label
KeyOf(granularity, label) ==
    IF granularity = "sub" /\ label.sub # Undefined
    THEN label.main \o ":" \o label.sub
    ELSE label.main

\* the bucket key of every position of text where a code point starts, by a
\* fresh classification of that code point
StartKeys(text, granularity) ==
    [i \in CodePointStarts(text) |->
        KeyOf(granularity, FreshClassification(CodePointAt(text, i)))]

\* the keys of a breakdown are those of keys, a function from positions
KeysAre(breakdown, keys) ==
    DOMAIN breakdown = {keys[i] : i \in DOMAIN keys}

\* total is the number of positions of keys, and every bucket counts the
\* positions of its key
CountsAre(total, breakdown, keys) ==
    /\ total = Cardinality(DOMAIN keys)
    /\ KeysAre(breakdown, keys)
    /\ \A k \in DOMAIN breakdown :
          breakdown[k].count = Cardinality({i \in DOMAIN keys : keys[i] = k})

\* total is the number of code points of the text, and the buckets are those
\* of the labels of its code points, each counting the positions of its label
CountsByScalarValue ==
    AnalyzeTextDone =>
        CountsAre(last.total, last.breakdown, StartKeys(last.text, last.gran))

\* the part of the example 'Hello \uAC00\u{1F60A}' that holds on every engine
HelloGaSmileCommon ==
    /\ last.total = 8
    /\ last.breakdown["Latin"] =
          [count |-> 5, ratio |-> 6250,
           chars |-> << <<\h48>>, <<\h65>>, <<\h6C>>, <<\h6F>> >>]
    /\ last.breakdown["Whitespace"].count = 1
    /\ last.breakdown["Whitespace"].ratio = 1250
    /\ last.breakdown["Hangul"].count = 1
    /\ last.breakdown["Hangul"].ratio = 1250

\* the bucket key of breakdown holds one character, an eighth of the text
OneOfEight(breakdown, key) ==
    /\ key \in DOMAIN breakdown
    /\ breakdown[key].count = 1
    /\ breakdown[key].ratio = 1250

HelloGaSmileCall ==
    AnalyzeTextDone /\ last.text = HelloGaSmile /\ last.gran \in {Undefined, "main"}

RECURSIVE SumOver(_, _, _)
\* the sum of field f of the buckets keys of the last breakdown
SumOver(keys, f, acc) ==
    IF keys = {} THEN acc
    ELSE SumOver(keys \ {CHOOSE k \in keys : TRUE}, f,
                 acc + last.breakdown[CHOOSE k \in keys : TRUE][f])

Abs(x) == IF x < 0 THEN -x ELSE x

SubLabels ==
    {WS_SUB[k] : k \in DOMAIN WS_SUB}
        \cup {"ASCII", "Uppercase", "Lowercase", "Variation Selector",
              "Extended Pictographic", "Emoji Component", "Syllable", "Jamo",
              "Jamo Ext-A", "Jamo Ext-B", "Compatibility Jamo", "Letter",
              "Other Script", "Decimal", "ZWJ", "ZWNJ", "BOM/ZWNBS"}

\* the keys main:sub
SubKeys == {m \o ":" \o sb : m \in MainLabels, sb \in SubLabels}

\* the keys that end in ':undefined'
UndefinedKeys == {m \o ":undefined" : m \in MainLabels}

\* C9: the bucket key of a character labelled (main, sub) is main under
\* 'main' (also when the granularity is omitted), and under 'sub' it is
\* main:sub when the label has a sub and bare main when it has none; no key
\* ends in ':undefined', and under 'main' every key is a bare main label.
\* 'Hello' under 'sub' gives exactly Latin:Uppercase (1) and
\* Latin:Lowercase (4).
C9_BucketKeys ==
    AnalyzeTextDone =>
        /\ KeysAre(last.breakdown, StartKeys(last.text, last.gran))
        /\ \A k \in DOMAIN last.breakdown :
              /\ k \notin UndefinedKeys
              /\ last.gran \in {Undefined, "main"} => k \in MainLabels
              /\ last.gran = "sub" => k \in MainLabels \cup SubKeys
        /\ (last.text = Hello /\ last.gran = "sub") =>
              /\ DOMAIN last.breakdown = {"Latin:Uppercase", "Latin:Lowercase"}
              /\ last.breakdown["Latin:Uppercase"].count = 1
              /\ last.breakdown["Latin:Lowercase"].count = 4

\* C9 witness: under 'sub', the lone surrogate U+D83D, whose label {Other}
\* has no sub, was put in the bucket 'Other' next to 'Latin:Lowercase'.
C9_Witness ==
    /\ AnalyzeTextDone
    /\ last.gran = "sub"
    /\ last.text = <<\h61, \hD83D>>
    /\ FreshClassification(\hD83D) = Label("Other", Undefined)
    /\ DOMAIN last.breakdown = {"Latin:Lowercase", "Other"}

\* chars is the sequence of the members of set, each once
EachOnce(chars, set) ==
    /\ {chars[i] : i \in 1..Len(chars)} = set
    /\ Len(chars) = Cardinality(set)

\* every bucket's chars holds, each once, the characters of text at the
\* positions of the bucket's key
CharsAre(breakdown, text, keys) ==
    \A k \in DOMAIN breakdown :
        EachOnce(breakdown[k].chars,
                 {CharAt(text, i) : i \in {j \in DOMAIN keys : keys[j] = k}})

\* every bucket's chars holds the distinct characters of the bucket, each
\* once and nothing else
DistinctChars ==
    AnalyzeTextDone =>
        CharsAre(last.breakdown, last.text, StartKeys(last.text, last.gran))

AabbccExample ==
    (AnalyzeTextDone /\ last.text = Aabbcc /\ last.gran \in {Undefined, "main"}) =>
        /\ last.breakdown["Latin"].chars = << <<\h61>>, <<\h62>>, <<\h63>> >>
        /\ last.breakdown["Latin"].count = 6

\* C10 (amended): every bucket's chars holds each distinct character of the
\* bucket exactly once and nothing else, in ascending order of UTF-16 code
\* units (the default order of Array.prototype.sort), so a supplementary-plane
\* character (first unit U+D800-U+DBFF) comes before a BMP character above
\* U+DBFF: U+1F60A before U+FE0F in the Emoji bucket.  'aabbcc' gives Latin
\* chars [a, b, c], count 6.
C10_DistinctSortedChars ==
    /\ DistinctChars
    /\ AabbccExample
    /\ AnalyzeTextDone =>
          \A k \in DOMAIN last.breakdown :
              \A i, j \in 1..Len(last.breakdown[k].chars) :
                  i < j => CodeUnitLess(last.breakdown[k].chars[i],
                                        last.breakdown[k].chars[j])

\* C10 as claimed: chars is in ascending code point order, also when a
\* bucket mixes BMP characters above U+D7FF with supplementary ones.
C10_Original ==
    /\ DistinctChars
    /\ AabbccExample
    /\ AnalyzeTextDone =>
          \A k \in DOMAIN last.breakdown :
              \A i, j \in 1..Len(last.breakdown[k].chars) :
                  i < j => CodePointAt(last.breakdown[k].chars[i], 1)
                              < CodePointAt(last.breakdown[k].chars[j], 1)

\* C10 witness: 'a', U+FE0F, U+1F60A on a full engine: the Emoji bucket
\* holds U+1F60A before U+FE0F.
C10_Witness ==
    /\ AnalyzeTextDone
    /\ last.text = LetterSelectorSmile
    /\ last.gran = "main"
    /\ engine = FullEngine
    /\ last.breakdown["Emoji"].chars = <<Smile, <<\hFE0F>> >>
    /\ last.breakdown["Emoji"].count = 2

-----------------------------------------------------------------------------
(* Errors (checked under Spec) *)

\* the outcome argument validation gives getCharacterType(char)
ValidatedChar(char) ==
    IF char = NotAString \/ char = <<>> THEN "TypeError" ELSE "ok"

\* the outcome argument validation gives analyzeText(text, {granularity})
ValidatedText(text, granularity) ==
    IF text = NotAString THEN "TypeError"
    ELSE IF granularity \notin {Undefined, "main", "sub"} THEN "RangeError"
    ELSE "ok"

Fails == last'.op \in {"getCharacterType", "analyzeText"} /\ last'.outcome # "ok"

\* C12: a call that throws TypeError or RangeError leaves the cache exactly
\* as it was before the call (no code point of the rejected text was
\* classified or inserted) and returns no result: no label, no total, no
\* breakdown.
C12_NoPartialWork ==
    [][Fails =>
          /\ last.op = "none"
          /\ last'.outcome \in {"TypeError", "RangeError"}
          /\ _memo' = _memo
          /\ last'.label = NoLabel
          /\ last'.total = 0
          /\ last'.breakdown = <<>>]_vars

\* C12 witness: analyzeText('Hello', {granularity: 'word'}) threw RangeError
\* on a warm cache that holds no code point of 'Hello'.
C12_Witness ==
    /\ last.op = "analyzeText"
    /\ last.text = Hello
    /\ last.outcome = "RangeError"
    /\ _memo # <<>>
    /\ \A i \in 1..Len(Hello) : Hello[i] \notin DOMAIN _memo

-----------------------------------------------------------------------------
(* The cache over sequences of calls (checked under Spec) *)

\* this step is a call of getCharacterType with a non-empty string
GetsCharacterType ==
    /\ last'.op = "getCharacterType"
    /\ last'.text # NotAString
    /\ last'.text # <<>>

\* the call of this step returns what getCharacterType of the one-character
\* string of code point c returns on the same cache, which is the fresh
\* classification of c, and adds to the cache the entry of c at most
FirstScalarOnly(c) ==
    /\ last'.outcome = "ok"
    /\ last'.label = getCharacterType(_memo, FromCodePoint(c)).label
    /\ last'.label = FreshClassification(c)
    /\ _memo' = getCharacterType(_memo, FromCodePoint(c)).memo
    /\ DOMAIN _memo' \subseteq DOMAIN _memo \cup {c}
    /\ c \in DOMAIN _memo'

\* C13: getCharacterType(text) depends only on the first scalar value c of
\* a non-empty text: it returns what getCharacterType of the one-character
\* string c returns, raises no error for the rest of the text, and adds to
\* the cache at most the entry of c; a leading surrogate pair is one code
\* point.
C13_FirstScalarOnly ==
    [][GetsCharacterType =>
          /\ FirstScalarOnly(CodePointAt(last'.text, 1))
          /\ (Len(last'.text) >= 2 /\ IsHighSurrogate(last'.text[1])
                 /\ IsLowSurrogate(last'.text[2]))
                => CodePointAt(last'.text, 1) > \hFFFF]_vars

\* C13 witness: getCharacterType('\u{1F60A}a') returned the label of U+1F60A
\* and cached U+1F60A only: neither its first code unit nor 'a'.
C13_Witness ==
    /\ GetCharacterTypeDone
    /\ last.text = SmileLetter
    /\ engine = FullEngine
    /\ last.label = Label("Emoji", "Extended Pictographic")
    /\ DOMAIN _memo = {\h1F60A}

\* the code points of text
CodePointsOf(text) == {CodePointAt(text, i) : i \in CodePointStarts(text)}

\* the code points the successful call of this step reads
ReadByCall ==
    IF last'.outcome # "ok" THEN {}
    ELSE IF last'.op = "getCharacterType" THEN {CodePointAt(last'.text, 1)}
    ELSE IF last'.op = "analyzeText" THEN CodePointsOf(last'.text)
    ELSE {}

\* C17: over any sequence of calls the cache is append-only: an entry is
\* never removed or replaced, a successful getCharacterType(text) leaves the
\* first code point of text cached, a successful analyzeText(text) leaves
\* every code point of text cached, nothing else is added, and a call whose
\* code points are all cached (cache hits) writes nothing.
C17_AppendOnly ==
    [][/\ \A c \in DOMAIN _memo : c \in DOMAIN _memo' /\ _memo'[c] = _memo[c]
       /\ DOMAIN _memo' = DOMAIN _memo \cup ReadByCall
       /\ ReadByCall \subseteq DOMAIN _memo => _memo' = _memo]_vars

\* C17 witness: analyzeText('Hello \uAC00\u{1F60A}') left all its code
\* points cached next to the entries of 'b' and 'c', cached before.
C17_Witness ==
    /\ AnalyzeTextDone
    /\ last.text = HelloGaSmile
    /\ ~last.cached
    /\ CodePointsOf(HelloGaSmile) \subseteq DOMAIN _memo
    /\ {\h62, \h63} \subseteq DOMAIN _memo

-----------------------------------------------------------------------------
(* Degradation and precedence in the classifier (checked under             *)
(* SpecClassify)                                                           *)

\* CJK Unified Ideographs and extensions A-J, as the claim C16 lists them
C16_Ranges ==
    << <<\h4E00, \h9FFF>>, <<\h3400, \h4DBF>>, <<\h20000, \h2A6DF>>,
       <<\h2A700, \h2B73F>>, <<\h2B740, \h2B81F>>, <<\h2B820, \h2CEAF>>,
       <<\h2CEB0, \h2EBEF>>, <<\h2EBF0, \h2EE5F>>, <<\h30000, \h3134F>>,
       <<\h31350, \h323AF>>, <<\h323B0, \h3347F>> >>

\* cp is a CJK ideograph of C16_Ranges
IsCjk(cp) ==
    \E i \in 1..Len(C16_Ranges) : cp \in C16_Ranges[i][1]..C16_Ranges[i][2]

\* the variation selectors
VariationSelectors == (\hFE00..\hFE0F) \cup (\hE0100..\hE01EF)

\* the label the Hangul ranges, the CJK ranges and the default give
RangeLabel(cp) ==
    IF \E i \in 1..5 : cp \in C6_Ranges[i]
    THEN Label("Hangul", C6_Subs[CHOOSE i \in 1..5 : cp \in C6_Ranges[i]])
    ELSE IF IsCjk(cp) THEN Label("Han Ideograph", Undefined)
    ELSE Label("Other", Undefined)

\* a non-ASCII code point outside the whitespace sets was classified on an
\* engine without property escapes
ClassifiedUnsupported ==
    /\ ClassifyDone
    /\ ~_SUPPORTS_PROP_ESCAPES
    /\ ClassifiedCp > \h7F
    /\ \A i \in 1..5 : ClassifiedCp \notin C3_Sets[i]

\* no classification on an engine without property escapes throws
NeverRaisesUnsupported ==
    (ClassifyDone /\ ~_SUPPORTS_PROP_ESCAPES) => last.outcome = "ok"

\* C14 (amended): without property escapes, the property tests of the emoji
\* detector contribute nothing and step 5 is skipped, so a non-ASCII,
\* non-whitespace code point is labelled by the Hangul ranges, the CJK
\* ranges or the default {main: 'Other'}, except the variation selectors
\* (U+FE00-U+FE0F, U+E0100-U+E01EF), which the emoji detector labels
\* Emoji:Variation Selector by range on every engine; no classification
\* throws.
C14_NoPropertySupport ==
    /\ NeverRaisesUnsupported
    /\ ClassifiedUnsupported =>
          last.label = IF ClassifiedCp \in VariationSelectors
                       THEN Label("Emoji", "Variation Selector")
                       ELSE RangeLabel(ClassifiedCp)

\* C14 as claimed: the emoji detector falls through for every non-ASCII,
\* non-whitespace code point.
C14_Original ==
    /\ NeverRaisesUnsupported
    /\ ClassifiedUnsupported => last.label = RangeLabel(ClassifiedCp)

\* C14 witness: U+1F60A, which has the Extended_Pictographic property, was
\* classified on an engine without property escapes as {main: 'Other'}.
C14_Witness ==
    /\ ClassifiedUnsupported
    /\ ClassifiedCp = \h1F60A
    /\ ClassifiedCp \in UcdExtendedPictographic
    /\ _RE_EXT_PICTO = Null
    /\ last.label = Label("Other", Undefined)

\* the engine compiles \p{gc=value}
HasGc(value) == PropExpr("gc", value) \in engine

\* the Script value the i-th script detector tests: its first alias the
\* engine compiles ("" when none)
TestedScript(i) ==
    IF \E j \in 1..Len(ScriptAdds[i][2]) :
           PropExpr("Script", ScriptAdds[i][2][j]) \in engine
    THEN ScriptAdds[i][2][CHOOSE j \in 1..Len(ScriptAdds[i][2]) :
             /\ PropExpr("Script", ScriptAdds[i][2][j]) \in engine
             /\ \A k \in 1..(j - 1) :
                   PropExpr("Script", ScriptAdds[i][2][k]) \notin engine]
    ELSE ""

\* the label of the first script detector, in list order, that tests the
\* script sc ("" when none)
ScriptLabelOf(sc) ==
    IF \E i \in 1..Len(ScriptAdds) : TestedScript(i) = sc
    THEN ScriptAdds[CHOOSE i \in 1..Len(ScriptAdds) :
             /\ TestedScript(i) = sc
             /\ \A k \in 1..(i - 1) : TestedScript(k) # sc][1]
    ELSE ""

\* the label the General_Category gc gives in the order of the claim C15,
\* script being the label of the letter's script ("" when none); NoLabel
\* when no test matches
C15_Expected(cp, gc, script) ==
    IF HasGc("Cc") /\ gc = "Cc" THEN Label("Control", Undefined)
    ELSE IF HasGc("Cf") /\ gc = "Cf"
    THEN Label("Format", IF cp = \h200D THEN "ZWJ"
                         ELSE IF cp = \h200C THEN "ZWNJ"
                         ELSE IF cp = \hFEFF THEN "BOM/ZWNBS"
                         ELSE Undefined)
    ELSE IF HasGc("L") /\ gc \in {"Lu", "Ll", "Lt", "Lm", "Lo"}
    THEN IF script # "" THEN Label(script, "Letter")
         ELSE Label("Letter", "Other Script")
    ELSE IF HasGc("M") /\ gc \in {"Mn", "Mc", "Me"} THEN Label("Mark", Undefined)
    ELSE IF HasGc("Nd") /\ gc = "Nd" THEN Label("Digit", "Decimal")
    ELSE IF HasGc("N") /\ gc \in {"Nd", "Nl", "No"} THEN Label("Number", Undefined)
    ELSE IF HasGc("P") /\ gc \in {"Pc", "Pd", "Ps", "Pe", "Pi", "Pf", "Po"}
    THEN Label("Punctuation", Undefined)
    ELSE IF HasGc("S") /\ gc \in {"Sm", "Sc", "Sk", "So"}
    THEN Label("Symbol", Undefined)
    ELSE IF HasGc("Z") /\ gc \in {"Zs", "Zl", "Zp"}
    THEN Label("Separator", Undefined)
    ELSE NoLabel

\* a code point that no earlier detector (whitespace, ASCII, emoji, Hangul
\* ranges) claims was classified on an engine with property escapes
ClassifiedByProperties ==
    /\ ClassifyDone
    /\ _SUPPORTS_PROP_ESCAPES
    /\ _classifyWhitespace(ClassifiedCp) = NoLabel
    /\ ClassifiedCp > \h7F
    /\ _classifyEmoji(last.text, ClassifiedCp) = NoLabel
    /\ _classifyHangul(ClassifiedCp) = NoLabel

\* the label is expected when expected is the label of a matching test
LabelIs(expected) == expected # NoLabel => last.label = expected

\* C15: with property escapes, a code point no earlier detector claims gets
\* the label of the first matching test in the order Cc, Cf, L (with the
\* first matching script in list order, else Other Script), M, Nd, N, P, S,
\* Z, a test of an expression the engine lacks being skipped; so a Decimal
\* Number is Digit:Decimal, never Number; and a non-ASCII, non-whitespace
\* code point with the Extended_Pictographic or Emoji property is Emoji,
\* whatever its General_Category.
C15_PropertyOrder ==
    /\ ClassifiedByProperties =>
          /\ LabelIs(C15_Expected(ClassifiedCp, Ucd(ClassifiedCp).gc,
                                  ScriptLabelOf(Ucd(ClassifiedCp).sc)))
          /\ (HasGc("Nd") /\ Ucd(ClassifiedCp).gc = "Nd") =>
                last.label = Label("Digit", "Decimal")
    /\ (/\ ClassifyDone
        /\ ClassifiedCp > \h7F
        /\ \A i \in 1..5 : ClassifiedCp \notin C3_Sets[i]
        /\ \/ Supports("Extended_Pictographic")
                 /\ ClassifiedCp \in UcdExtendedPictographic
           \/ Supports("Emoji") /\ ClassifiedCp \in UcdEmoji)
          => last.label.main = "Emoji"

\* C15 witness: U+0663 ARABIC-INDIC DIGIT THREE (Nd), which also passes the
\* Number test, was classified on a full engine as Digit:Decimal.
C15_Witness ==
    /\ ClassifiedByProperties
    /\ engine = FullEngine
    /\ ClassifiedCp = \h663
    /\ Ucd(ClassifiedCp).gc = "Nd"
    /\ RegExpTest(_RE_GC_NUMBER, last.text)
    /\ last.label = Label("Digit", "Decimal")

\* steps 1-5 give the code point of ch no label
StepsGiveNoLabel(ch, cp) ==
    /\ _classifyWhitespace(cp) = NoLabel
    /\ cp > \h7F
    /\ _classifyEmoji(ch, cp) = NoLabel
    /\ _classifyHangul(cp) = NoLabel
    /\ _SUPPORTS_PROP_ESCAPES => ClassifyByProperties(ch, cp) = NoLabel

\* the engine labels a Han letter by its script whenever it tests letters
HanScriptTested ==
    (_SUPPORTS_PROP_ESCAPES /\ HasGc("L")) => PropExpr("Script", "Han") \in engine

\* C16: the range fallback is consulted only after steps 1-5 gave no label:
\* then a code point of U+4E00-U+9FFF or of the extensions A-J (the ranges
\* of the source are exactly those listed) is {main: 'Han Ideograph'}
\* without sub and any other is {main: 'Other'}, and a label of steps 1-5
\* is never replaced; so every code point of these ranges has main
\* 'Han Ideograph', with property escapes (where \p{Script=Han} labels the
\* assigned ones {Han Ideograph, Letter}) and without.
C16_RangeFallback ==
    /\ {CjkRanges[i] : i \in 1..Len(CjkRanges)}
          = {C16_Ranges[i] : i \in 1..Len(C16_Ranges)}
    /\ (ClassifyDone /\ StepsGiveNoLabel(last.text, ClassifiedCp)) =>
          last.label = IF IsCjk(ClassifiedCp)
                       THEN Label("Han Ideograph", Undefined)
                       ELSE Label("Other", Undefined)
    /\ (ClassifyDone /\ last.label \in {Label("Han Ideograph", Undefined),
                                         Label("Other", Undefined)}) =>
          StepsGiveNoLabel(last.text, ClassifiedCp)
    /\ (ClassifyDone /\ IsCjk(ClassifiedCp) /\ HanScriptTested) =>
          last.label.main = "Han Ideograph"

\* C16 witness: U+323B0, first of extension J and unassigned in the
\* engine's Unicode version, got no label from steps 1-5 on a full engine
\* and was labelled {main: 'Han Ideograph'} by the fallback.
C16_Witness ==
    /\ ClassifyDone
    /\ engine = FullEngine
    /\ ClassifiedCp = \h323B0
    /\ Ucd(ClassifiedCp).gc = "Cn"
    /\ StepsGiveNoLabel(last.text, ClassifiedCp)
    /\ last.label = Label("Han Ideograph", Undefined)

\* the code points of [0, 0x7F] that the ASCII fast path leaves to its last
\* branch are claimed by the whitespace detector
AsciiGapsAreWhitespace ==
    \A cp \in 0..\h7F :
        _classifyAscii(cp) = Label("Other", "ASCII")
            => _classifyWhitespace(cp) # NoLabel

\* C18: no code point is ever labelled {Other, ASCII}: every code point of
\* [0, 0x7F] that the ranges of the ASCII fast path leave to its last branch
\* is claimed by the whitespace detector first, so every ASCII code point
\* has main Whitespace, Control, Digit, Latin or Punctuation.
C18_OtherAsciiUnreachable ==
    /\ AsciiGapsAreWhitespace
    /\ ClassifyDone =>
          /\ last.label # Label("Other", "ASCII")
          /\ ClassifiedCp <= \h7F =>
                last.label.main \in
                    {"Whitespace", "Control", "Digit", "Latin", "Punctuation"}

\* C18 witness: U+0020, the one code point the ASCII fast path would label
\* {Other, ASCII}, was classified as Whitespace.
C18_Witness ==
    /\ ClassifyDone
    /\ ClassifiedCp = \h20
    /\ _classifyAscii(ClassifiedCp) = Label("Other", "ASCII")
    /\ last.label = Label("Whitespace", "Space Separator")

=============================================================================
